---- MODULE Spec2Model ----
(***************************************************************************)
(* Authentication and session subsystem of all_in_ledger_web.              *)
(*                                                                         *)
(* The state is the relational store (User, Family, FamilyMember, Session, *)
(* OAuthAccount rows), the wall clock, and a small pool of request slots,  *)
(* each running one request handler (register, login, logout, me, OAuth    *)
(* callback) step by step.  A step is one access to the shared store: the  *)
(* local computation of a handler between two store accesses is folded     *)
(* into the access that follows it.  A prisma.$transaction block is one    *)
(* step: its writes become visible together at commit, or not at all.      *)
(*                                                                         *)
(* Time is counted in days.  A request is short compared with a day, so    *)
(* the clock only advances while no request is in flight.                  *)
(*                                                                         *)
(* clients says who sends the requests: "any" clients send every input of  *)
(* the input domains, malformed ones included (Spec); "wellFormed" clients *)
(* send only requests that pass the validation of the handler, and send    *)
(* more of them (SpecDeep).                                                *)
(***************************************************************************)
EXTENDS Integers, Sequences, FiniteSets, TLC

VARIABLES users, families, members, sessions, oauthAccounts, now, req, nreq,
          clients, transactions

vars == <<users, families, members, sessions, oauthAccounts, now, req, nreq,
          clients, transactions>>

----------------------------------------------------------------------------
(* Bounds of the model *)

MaxRequests == 2
MaxDeepRequests == 3
MaxTime == 60
MaxTransactions == 2

(* Program constants *)

SESSION_TIL_DAYS == 30
UsernameMin == 5
UsernameMax == 50
PasswordMin == 8
PasswordMax == 200
LoginPasswordMin == 1
FamilyNameMin == 1
FamilyNameMax == 80

Procs == {"r1", "r2"}

Null == <<>>
Some(x) == <<x>>

(* Input domains *)

WellFormedEmails == {"a@x.com", "b@x.com"}
MalformedEmails == {"not-an-email"}
Emails == WellFormedEmails \cup MalformedEmails
Passwords == {"password123", "short", ""}
FamilyNames == {Null, Some("Wong House")}
Subs == {"g1", "g2"}

\* crypto.randomBytes(32).toString("hex"): raw tokens are named by numbers.
Tokens == 1 .. (MaxDeepRequests + 1)

----------------------------------------------------------------------------
(* src/server/auth/password.ts *)

\* A stored hash is the sequence of its "$"-separated fields.
\* argon2.hash: a self-describing hash of the plaintext (the salt is left out).
hashPassword(plainPassword) == <<"$argon2id", plainPassword>>

\* (mutant) a verification that accepts every password
verifyPasswordAcceptsAll(passwordHash, plainPassword) == "true"

\* argon2.verify: "true" / "false" for an argon2 hash; a stored hash that is not
\* in the PHC format cannot be deserialized and the call rejects.
verifyPassword(passwordHash, plainPassword) ==
    IF Len(passwordHash) = 2 /\ passwordHash[1] = "$argon2id"
    THEN IF passwordHash[2] = plainPassword THEN "true" ELSE "false"
    ELSE "throw"

(* src/server/auth/session.ts *)

\* (mutant) the raw token stored as it is
hashSessionTokenIdentity(token) == token

\* sha256 of the raw token, hex: deterministic and collision-free, a value of
\* the same kind as a raw token (64 hex characters) that is no raw token.
\* The digest of token t is written -t.
hashSessionToken(token) == 0 - token

\* (mutant) an expiry one calendar month ahead (setMonth) in a 31-day month
getSessionExpiryDateNextMonth(t) == t + 31

getSessionExpiryDate(t) == t + SESSION_TIL_DAYS

\* The values generateSessionToken() can return.  Raw tokens are
\* interchangeable, so a draw is either a token drawn before or the first
\* token never drawn.
generateSessionToken(stored) ==
    LET drawn == {t \in Tokens : hashSessionToken(t) \in stored}
        fresh == Tokens \ drawn
    IN drawn \cup (IF fresh = {} THEN {}
                   ELSE {CHOOSE t \in fresh : \A x \in fresh : t <= x})

\* The draws a handler is followed through: every draw when no statement of
\* its transaction is failed, the fresh draw when one is (the token is then
\* neither stored nor returned).
sessionTokenDraws(stored, failAt) ==
    LET all == generateSessionToken(stored)
    IN IF failAt = "none" THEN all
       ELSE {t \in all : hashSessionToken(t) \notin stored}

(* src/shared/validators/auth.ts *)

IsEmail(e) == e \in WellFormedEmails

\* (mutant) a schema without the upper limit on the username
RegisterSchemaNoUsernameMax(input) ==
    /\ IsEmail(input.email)
    /\ Len(input.username) >= UsernameMin
    /\ Len(input.password) >= PasswordMin /\ Len(input.password) <= PasswordMax
    /\ input.familyName # Null =>
          /\ Len(input.familyName[1]) >= FamilyNameMin
          /\ Len(input.familyName[1]) <= FamilyNameMax

RegisterSchemaOk(input) ==
    /\ IsEmail(input.email)
    /\ Len(input.username) >= UsernameMin /\ Len(input.username) <= UsernameMax
    /\ Len(input.password) >= PasswordMin /\ Len(input.password) <= PasswordMax
    /\ input.familyName # Null =>
          /\ Len(input.familyName[1]) >= FamilyNameMin
          /\ Len(input.familyName[1]) <= FamilyNameMax

LoginSchemaOk(input) ==
    /\ IsEmail(input.email)
    /\ Len(input.password) >= LoginPasswordMin

----------------------------------------------------------------------------
(* The store *)

DB == [users |-> users, families |-> families, members |-> members,
       sessions |-> sessions, oauthAccounts |-> oauthAccounts]

EmptyDB == [users |-> {}, families |-> {}, members |-> {},
            sessions |-> {}, oauthAccounts |-> {}]

SetDB(db) ==
    /\ users' = db.users
    /\ families' = db.families
    /\ members' = db.members
    /\ sessions' = db.sessions
    /\ oauthAccounts' = db.oauthAccounts

NextId(rows) == Cardinality(rows) + 1

NoRow == [id |-> 0]

\* The outcome of one statement: the store after it, and the row it returns.
\* A statement that throws names itself (stmt) and its error: "P2002" is the
\* violation of a unique index, "P2025" a missing row, "DbError" any other
\* failure of the store (connection lost, transaction timed out).
Ok(db, row) == [ok |-> TRUE, err |-> "", stmt |-> "", db |-> db, row |-> row]
Throw(db, err, stmt) ==
    [ok |-> FALSE, err |-> err, stmt |-> stmt, db |-> db, row |-> NoRow]

\* unique index on User.email
EmailTaken(db, email) == \E u \in db.users : u.email = email

\* unique index on Session.tokenHash
TokenHashTaken(db, tokenHash) == \E s \in db.sessions : s.tokenHash = tokenHash

\* prisma.user.findUnique({ where: { email } })
findUserByEmail(db, email) ==
    IF \E u \in db.users : u.email = email
    THEN CHOOSE u \in db.users : u.email = email
    ELSE NoRow

\* (mutant) tx.user.create on a User table without the unique index on email
userCreateNoUniqueIndex(db, data, fails) ==
    IF fails THEN Throw(db, "DbError", "user.create")
    ELSE LET row == [id |-> NextId(db.users), email |-> data.email,
                     username |-> data.username,
                     passwordHash |-> data.passwordHash,
                     role |-> "USER", isActive |-> TRUE, lastLogin |-> Null]
         IN Ok([db EXCEPT !.users = @ \cup {row}], row)

\* tx.user.create: role and isActive take their column defaults.
userCreate(db, data, fails) ==
    IF fails THEN Throw(db, "DbError", "user.create")
    ELSE IF EmailTaken(db, data.email) THEN Throw(db, "P2002", "user.create")
    ELSE LET row == [id |-> NextId(db.users), email |-> data.email,
                     username |-> data.username,
                     passwordHash |-> data.passwordHash,
                     role |-> "USER", isActive |-> TRUE, lastLogin |-> Null]
         IN Ok([db EXCEPT !.users = @ \cup {row}], row)

\* tx.family.create
familyCreate(db, data, fails) ==
    IF fails THEN Throw(db, "DbError", "family.create")
    ELSE LET row == [id |-> NextId(db.families), name |-> data.name,
                     createdBy |-> data.createdBy]
         IN Ok([db EXCEPT !.families = @ \cup {row}], row)

\* (mutant) tx.familyMember.create that stores the default member role
familyMemberCreateDefaultRole(db, data, fails) ==
    IF fails THEN Throw(db, "DbError", "familyMember.create")
    ELSE LET row == [familyId |-> data.familyId, userId |-> data.userId,
                     memberRole |-> "MEMBER"]
         IN Ok([db EXCEPT !.members = @ \cup {row}], row)

\* tx.familyMember.create
familyMemberCreate(db, data, fails) ==
    IF fails THEN Throw(db, "DbError", "familyMember.create")
    ELSE LET row == [familyId |-> data.familyId, userId |-> data.userId,
                     memberRole |-> data.memberRole]
         IN Ok([db EXCEPT !.members = @ \cup {row}], row)

\* (mutant) a session.create that replaces the sessions the user holds
sessionCreateOnePerUser(db, data, t, fails) ==
    IF fails THEN Throw(db, "DbError", "session.create")
    ELSE IF TokenHashTaken(db, data.tokenHash)
    THEN Throw(db, "P2002", "session.create")
    ELSE LET row == [id |-> NextId(db.sessions), userId |-> data.userId,
                     tokenHash |-> data.tokenHash, createdAt |-> t,
                     expiresAt |-> data.expiresAt, revokedAt |-> Null]
         IN Ok([db EXCEPT !.sessions =
                    {s \in @ : s.userId # data.userId} \cup {row}], row)

\* (mutant) tx.session.create on a Session table without the unique index
\* on tokenHash
sessionCreateNoUniqueIndex(db, data, t, fails) ==
    IF fails THEN Throw(db, "DbError", "session.create")
    ELSE LET row == [id |-> NextId(db.sessions), userId |-> data.userId,
                     tokenHash |-> data.tokenHash, createdAt |-> t,
                     expiresAt |-> data.expiresAt, revokedAt |-> Null]
         IN Ok([db EXCEPT !.sessions = @ \cup {row}], row)

\* tx.session.create: revokedAt is null, createdAt is the time of the insert.
sessionCreate(db, data, t, fails) ==
    IF fails THEN Throw(db, "DbError", "session.create")
    ELSE IF TokenHashTaken(db, data.tokenHash) THEN Throw(db, "P2002", "session.create")
    ELSE LET row == [id |-> NextId(db.sessions), userId |-> data.userId,
                     tokenHash |-> data.tokenHash, createdAt |-> t,
                     expiresAt |-> data.expiresAt, revokedAt |-> Null]
         IN Ok([db EXCEPT !.sessions = @ \cup {row}], row)

\* tx.user.update({ where: { id }, data: { lastLogin } })
userUpdateLastLogin(db, id, t, fails) ==
    IF fails THEN Throw(db, "DbError", "user.update")
    ELSE IF ~ \E u \in db.users : u.id = id THEN Throw(db, "P2025", "user.update")
    ELSE LET old == CHOOSE u \in db.users : u.id = id
             row == [old EXCEPT !.lastLogin = Some(t)]
         IN Ok([db EXCEPT !.users = (@ \ {old}) \cup {row}], row)

\* unique index on OAuthAccount (provider, providerAccountId)
ProviderAccountTaken(db, provider, providerAccountId) ==
    \E a \in db.oauthAccounts :
        a.provider = provider /\ a.providerAccountId = providerAccountId

\* tx.oAuthAccount.findUnique({ where: { provider_providerAccountId } })
\* (mutant) a callback that does not find the link of the subject id
findOAuthAccountNever(db, provider, providerAccountId) == NoRow

findOAuthAccount(db, provider, providerAccountId) ==
    IF ProviderAccountTaken(db, provider, providerAccountId)
    THEN CHOOSE a \in db.oauthAccounts :
             a.provider = provider /\ a.providerAccountId = providerAccountId
    ELSE NoRow

\* the user row a foreign key points at (include: { user: true })
userById(db, id) ==
    IF \E u \in db.users : u.id = id
    THEN CHOOSE u \in db.users : u.id = id
    ELSE NoRow

\* tx.oAuthAccount.create
\* (mutant) oAuthAccount.create on a table without the unique index on
\* (provider, providerAccountId)
oAuthAccountCreateNoUniqueIndex(db, data, fails) ==
    IF fails THEN Throw(db, "DbError", "oAuthAccount.create")
    ELSE LET row == [id |-> NextId(db.oauthAccounts), userId |-> data.userId,
                     provider |-> data.provider,
                     providerAccountId |-> data.providerAccountId,
                     email |-> data.email]
         IN Ok([db EXCEPT !.oauthAccounts = @ \cup {row}], row)

\* (mutant) a callback that does not store the link
oAuthAccountCreateSkipped(db, data, fails) ==
    IF fails THEN Throw(db, "DbError", "oAuthAccount.create")
    ELSE Ok(db, NoRow)

oAuthAccountCreate(db, data, fails) ==
    IF fails THEN Throw(db, "DbError", "oAuthAccount.create")
    ELSE IF ProviderAccountTaken(db, data.provider, data.providerAccountId)
    THEN Throw(db, "P2002", "oAuthAccount.create")
    ELSE LET row == [id |-> NextId(db.oauthAccounts), userId |-> data.userId,
                     provider |-> data.provider,
                     providerAccountId |-> data.providerAccountId,
                     email |-> data.email]
         IN Ok([db EXCEPT !.oauthAccounts = @ \cup {row}], row)

\* prisma.session.findUnique({ where: { tokenHash }, include: { user: true } })
findSessionByTokenHash(db, tokenHash) ==
    IF TokenHashTaken(db, tokenHash)
    THEN CHOOSE s \in db.sessions : s.tokenHash = tokenHash
    ELSE NoRow

\* (mutant) an updateMany whose where clause lacks revokedAt: null
sessionRevokeManyAgain(db, tokenHash, t) ==
    [db EXCEPT !.sessions =
        {IF s.tokenHash = tokenHash
         THEN [s EXCEPT !.revokedAt = Some(t)] ELSE s : s \in @}]

\* (mutant) an updateMany whose where clause lacks the tokenHash
sessionRevokeManyAnyToken(db, tokenHash, t) ==
    [db EXCEPT !.sessions =
        {IF s.revokedAt = Null
         THEN [s EXCEPT !.revokedAt = Some(t)] ELSE s : s \in @}]

\* prisma.session.updateMany({ where: { tokenHash, revokedAt: null },
\*                             data: { revokedAt } })
sessionRevokeMany(db, tokenHash, t) ==
    [db EXCEPT !.sessions =
        {IF s.tokenHash = tokenHash /\ s.revokedAt = Null
         THEN [s EXCEPT !.revokedAt = Some(t)] ELSE s : s \in @}]

\* (mutant) the statements run one by one, outside a transaction
transactionKeepsWrites(before, r) == r

\* prisma.$transaction(fn): the writes of fn are kept when fn returns and
\* dropped when it throws; the error is rethrown to the caller.
transaction(before, r) == IF r.ok THEN r ELSE [r EXCEPT !.db = before]

----------------------------------------------------------------------------
(* Request slots *)

NoInput == [email |-> ""]
NoResult == [outcome |-> "none", err |-> "", status |-> 0, message |-> "",
             detail |-> "", branch |-> "", user |-> NoRow,
             sessionToken |-> Null, cookie |-> Null, rows |-> {}]

Idle == [pc |-> "idle", kind |-> "none", input |-> NoInput, local |-> NoRow,
         result |-> NoResult]

PublicUser(u) == [id |-> u.id, email |-> u.email, username |-> u.username,
                  role |-> u.role]

\* return { user, sessionToken }
Returned(branch, u, token) ==
    [NoResult EXCEPT !.outcome = "ok", !.branch = branch,
                     !.user = PublicUser(u), !.sessionToken = Some(token)]

\* throw new HttpError(message, status)
HttpError(branch, message, status) ==
    [NoResult EXCEPT !.outcome = "throw", !.err = "HttpError",
                     !.status = status, !.message = message, !.branch = branch]

\* any other exception leaving the handler; branch is the line, or the
\* statement of the transaction, that threw it.
Thrown(branch, err) ==
    [NoResult EXCEPT !.outcome = "throw", !.err = err, !.branch = branch]

\* A Set-Cookie of the session cookie: its value (empty, or a raw token), and
\* its max-age (seconds) or its expires attribute.
SetCookie(value, maxAge, expires) ==
    Some([value |-> value, maxAge |-> maxAge, expires |-> expires])

Free(p) == req[p].pc \in {"idle", "done"}

\* The number of requests the clients send.
Budget == IF clients = "any" THEN MaxRequests ELSE MaxDeepRequests

\* Slots are interchangeable: a new request takes r1 when r1 is free, and r2
\* only while the request in r1 is still in flight.
Begin(p) == /\ Free(p)
            /\ p = "r2" => ~Free("r1")
            /\ nreq < Budget
            /\ nreq' = nreq + 1
            /\ UNCHANGED clients

\* A slot keeps the outcome of its request until the next request arrives;
\* the outcomes of the requests that ran before it are dropped then.
Enter(p, slot) ==
    req' = [q \in Procs |->
               IF q = p THEN slot
               ELSE IF req[p].pc \in {"idle", "done"} /\ req[q].pc = "done"
               THEN Idle ELSE req[q]]

Finish(p, kind, input, result) ==
    Enter(p, [pc |-> "done", kind |-> kind, input |-> input,
              local |-> NoRow, result |-> result])

InFlight(p, pc, kind, input, local) ==
    Enter(p, [pc |-> pc, kind |-> kind, input |-> input,
              local |-> local, result |-> NoResult])

----------------------------------------------------------------------------
(* src/server/services/auth.service.ts: register *)

ValidRegisterInputs == [email : WellFormedEmails, username : {"alice1"},
                        password : {"password123"}, familyName : FamilyNames]

BaseRegisterInput == [email |-> "a@x.com", username |-> "alice1",
                      password |-> "password123", familyName |-> Null]

\* A username of 51 characters and a password of 201.
LongUsername == "uuuuuuuuuuuuuuuuuuuuuuuuuuuuuuuuuuuuuuuuuuuuuuuuuuu"
LongPassword ==
    "pppppppppppppppppppppppppppppppppppppppppppppppppppppppppppp" \o
    "pppppppppppppppppppppppppppppppppppppppppppppppppppppppppppppppppppppp" \o
    "ppppppppppppppppppppppppppppppppppppppppppppppppppppppppppppppppppppppp"

\* One field out of range at a time, each one character off its limit.
InvalidRegisterInputs ==
    {[BaseRegisterInput EXCEPT !.email = e] : e \in MalformedEmails}
    \cup {[BaseRegisterInput EXCEPT !.username = "alic"],
          [BaseRegisterInput EXCEPT !.username = LongUsername],
          [BaseRegisterInput EXCEPT !.password = "passwor"],
          [BaseRegisterInput EXCEPT !.password = LongPassword],
          [BaseRegisterInput EXCEPT !.familyName = Some("")]}

RegisterInputs ==
    ValidRegisterInputs \cup (IF clients = "any" THEN InvalidRegisterInputs ELSE {})

\* (mutant) register without the lookup of the email
registerConflictNever(db, email) == FALSE

\* const existing = findUnique({ where: { email } }); if (existing) throw 409
registerConflict(db, email) == findUserByEmail(db, email) # NoRow

\* line 129-136: parse the input, then look the email up.
RegisterBegin(p) ==
    /\ Begin(p)
    /\ \E input \in RegisterInputs :
          IF ~RegisterSchemaOk(input)
          THEN Finish(p, "register", input, Thrown("L129", "ZodError"))
          ELSE IF registerConflict(DB, input.email)
          THEN Finish(p, "register", input,
                      HttpError("L136", "Email already in use", 409))
          ELSE InFlight(p, "register_tx", "register", input, NoRow)
    /\ UNCHANGED <<users, families, members, sessions, oauthAccounts, now, transactions>>

RegisterFailPoints == {"none", "user", "family", "member", "session"}

\* line 145-178: the body of the transaction
registerTx(db, data, passwordHash, tokenHash, expiresAt, t, failAt) ==
    LET r1 == userCreate(db, [email |-> data.email, username |-> data.username,
                              passwordHash |-> passwordHash], failAt = "user")
    IN IF ~r1.ok THEN r1 ELSE
    LET r2 == familyCreate(r1.db,
                  [name |-> IF data.familyName # Null THEN data.familyName[1]
                            ELSE data.username \o "'s Family",
                   createdBy |-> r1.row.id], failAt = "family")
    IN IF ~r2.ok THEN r2 ELSE
    LET r3 == familyMemberCreate(r2.db,
                  [familyId |-> r2.row.id, userId |-> r1.row.id,
                   memberRole |-> "OWNER"], failAt = "member")
    IN IF ~r3.ok THEN r3 ELSE
    LET r4 == sessionCreate(r3.db,
                  [userId |-> r1.row.id, tokenHash |-> tokenHash,
                   expiresAt |-> expiresAt], t, failAt = "session")
    IN IF ~r4.ok THEN r4 ELSE Ok(r4.db, r1.row)

\* line 138-188: hash the password, draw the token, run the transaction.
RegisterTx(p) ==
    /\ req[p].pc = "register_tx"
    /\ \E failAt \in RegisterFailPoints :
          \E sessionToken \in sessionTokenDraws({s.tokenHash : s \in sessions}, failAt) :
          LET data == req[p].input
              r == transaction(DB, registerTx(DB, data, hashPassword(data.password),
                                   hashSessionToken(sessionToken),
                                   getSessionExpiryDate(now), now, failAt))
          IN /\ SetDB(r.db)
             /\ Finish(p, "register", data,
                       IF r.ok THEN Returned("L180", r.row, sessionToken)
                       ELSE Thrown(r.stmt, r.err))
    /\ UNCHANGED <<now, nreq, clients, transactions>>

(* app/api/auth/register/route.ts, line 58-100 *)

\* The response to POST /api/auth/register, from what register() returned or
\* threw: its status, its error message, the session cookie it sets.
registerPOST(result) ==
    IF result.outcome = "ok"
    THEN [status |-> 201, error |-> "",
          cookie |-> SetCookie(result.sessionToken, Some(60 * 60 * 24 * 30), Null)]
    ELSE IF result.err = "ZodError"
    THEN [status |-> 400, error |-> "Validation error", cookie |-> Null]
    ELSE IF result.err = "HttpError"
    THEN [status |-> result.status, error |-> result.message, cookie |-> Null]
    ELSE [status |-> 500, error |-> "Internal server error", cookie |-> Null]

----------------------------------------------------------------------------
(* src/server/services/auth.service.ts: login *)

ValidLoginInputs == [email : WellFormedEmails, password : Passwords \ {""}]

InvalidLoginInputs ==
    {[email |-> e, password |-> "password123"] : e \in MalformedEmails}
    \cup {[email |-> "a@x.com", password |-> ""]}

LoginInputs ==
    ValidLoginInputs \cup (IF clients = "any" THEN InvalidLoginInputs ELSE {})

\* (mutant) login without the check of the active flag
loginCheckSkipActive(db, data) ==
    IF ~LoginSchemaOk(data) THEN Thrown("L193", "ZodError")
    ELSE LET user == findUserByEmail(db, data.email)
         IN IF user = NoRow
            THEN HttpError("L196", "No user found. Try a different login.", 401)
            ELSE LET ok == verifyPassword(user.passwordHash, data.password)
                 IN IF ok = "throw" THEN Thrown("L200", "TypeError")
                    ELSE IF ok = "false"
                    THEN HttpError("L201", "Invalid email or password", 401)
                    ELSE NoResult

\* line 193-201: the checks before the session is created.
loginCheck(db, data) ==
    IF ~LoginSchemaOk(data) THEN Thrown("L193", "ZodError")
    ELSE LET user == findUserByEmail(db, data.email)
         IN IF user = NoRow
            THEN HttpError("L196", "No user found. Try a different login.", 401)
            ELSE IF ~user.isActive THEN HttpError("L198", "Account disabled", 403)
            ELSE LET ok == verifyPassword(user.passwordHash, data.password)
                 IN IF ok = "throw" THEN Thrown("L200", "TypeError")
                    ELSE IF ok = "false"
                    THEN HttpError("L201", "Invalid email or password", 401)
                    ELSE NoResult

LoginBegin(p) ==
    /\ Begin(p)
    /\ \E input \in LoginInputs :
          LET c == loginCheck(DB, input)
          IN IF c # NoResult
             THEN Finish(p, "login", input, c)
             ELSE InFlight(p, "login_tx", "login", input,
                           findUserByEmail(DB, input.email))
    /\ UNCHANGED <<users, families, members, sessions, oauthAccounts, now, transactions>>

LoginFailPoints == {"none", "session", "update"}

\* line 207-221: the body of the transaction
loginTx(db, user, tokenHash, expiresAt, t, failAt) ==
    LET r1 == sessionCreate(db, [userId |-> user.id, tokenHash |-> tokenHash,
                                 expiresAt |-> expiresAt], t, failAt = "session")
    IN IF ~r1.ok THEN r1 ELSE
    LET r2 == userUpdateLastLogin(r1.db, user.id, t, failAt = "update")
    IN IF ~r2.ok THEN r2 ELSE Ok(r2.db, user)

\* line 203-231
LoginTx(p) ==
    /\ req[p].pc = "login_tx"
    /\ \E failAt \in LoginFailPoints :
          \E sessionToken \in sessionTokenDraws({s.tokenHash : s \in sessions}, failAt) :
          LET user == req[p].local
              r == transaction(DB, loginTx(DB, user, hashSessionToken(sessionToken),
                                   getSessionExpiryDate(now), now, failAt))
          IN /\ SetDB(r.db)
             /\ Finish(p, "login", req[p].input,
                       IF r.ok THEN Returned("L223", user, sessionToken)
                       ELSE Thrown(r.stmt, r.err))
    /\ UNCHANGED <<now, nreq, clients, transactions>>

(* app/api/auth/login/route.ts, line 12-24 *)

\* The session cookie POST /api/auth/login sets when login() returned.
loginPOSTCookie(result) ==
    SetCookie(result.sessionToken, Some(60 * 60 * 24 * 30), Null)

\* The response of POST /api/auth/login to what login() returned or threw.
\* The catch block tests `err instanceof AuthError`; auth.service exports
\* HttpError and no AuthError, so the name is bound to undefined, the test
\* itself throws a TypeError and the error leaves the handler: the framework
\* answers 500 for every failure of login().
loginPOST(result) ==
    IF result.outcome = "ok"
    THEN [status |-> 200, error |-> "", cookie |-> loginPOSTCookie(result)]
    ELSE [status |-> 500, error |-> "Internal Server Error", cookie |-> Null]

----------------------------------------------------------------------------
(* src/server/auth/currentUser.ts *)

\* The Cookie header of a request: no session cookie, or session=<raw token>
\* with a token that was issued or (the first fresh one) never issued.
Cookies ==
    {Null} \cup {Some(t) : t \in generateSessionToken({s.tokenHash : s \in sessions})}

\* cookie.match(/session=([^;]+)/)
getRawSessionTokenFromRequest(cookie) == cookie

\* (mutant) a resolver that accepts a session at the instant it expires
getCurrentUserExpiryInclusive(db, cookie, t) ==
    LET rawSessionToken == getRawSessionTokenFromRequest(cookie)
    IN IF rawSessionToken = Null THEN NoRow
       ELSE LET session == findSessionByTokenHash(db, hashSessionToken(rawSessionToken[1]))
            IN IF session = NoRow THEN NoRow
               ELSE IF session.revokedAt # Null THEN NoRow
               ELSE IF session.expiresAt < t THEN NoRow
               ELSE userById(db, session.userId)

\* (mutant) a resolver that does not look at revokedAt
getCurrentUserIgnoringRevocation(db, cookie, t) ==
    LET rawSessionToken == getRawSessionTokenFromRequest(cookie)
    IN IF rawSessionToken = Null THEN NoRow
       ELSE LET session == findSessionByTokenHash(db, hashSessionToken(rawSessionToken[1]))
            IN IF session = NoRow THEN NoRow
               ELSE IF session.expiresAt <= t THEN NoRow
               ELSE userById(db, session.userId)

getCurrentUserFromRequest(db, cookie, t) ==
    LET rawSessionToken == getRawSessionTokenFromRequest(cookie)
    IN IF rawSessionToken = Null THEN NoRow
       ELSE LET session == findSessionByTokenHash(db, hashSessionToken(rawSessionToken[1]))
            IN IF session = NoRow THEN NoRow
               ELSE IF session.revokedAt # Null THEN NoRow
               ELSE IF session.expiresAt <= t THEN NoRow
               ELSE userById(db, session.userId)

(* app/api/auth/me/route.ts *)

meGET(db, cookie, t) ==
    LET user == getCurrentUserFromRequest(db, cookie, t)
    IN IF user = NoRow
       THEN [NoResult EXCEPT !.outcome = "response", !.status = 401,
                             !.message = "Unauthorized", !.branch = "L41"]
       ELSE [NoResult EXCEPT !.outcome = "response", !.status = 200,
                             !.user = PublicUser(user), !.branch = "L43"]

Me(p) ==
    /\ Begin(p)
    /\ \E cookie \in Cookies :
          Finish(p, "me", [cookie |-> cookie], meGET(DB, cookie, now))
    /\ UNCHANGED <<users, families, members, sessions, oauthAccounts, now, transactions>>

(* app/api/auth/logout/route.ts *)

ClearedCookie == SetCookie(Null, Some(0), Null)

logoutPOST(db, cookie, t) ==
    LET rawSessionToken == getRawSessionTokenFromRequest(cookie)
    IN IF rawSessionToken # Null
       THEN sessionRevokeMany(db, hashSessionToken(rawSessionToken[1]), t)
       ELSE db

Logout(p) ==
    /\ Begin(p)
    /\ \E cookie \in Cookies :
          /\ SetDB(logoutPOST(DB, cookie, now))
          /\ Finish(p, "logout", [cookie |-> cookie],
                    [NoResult EXCEPT !.outcome = "response", !.status = 200,
                                     !.branch = "L20", !.cookie = ClearedCookie])
    /\ UNCHANGED <<now, transactions>>

----------------------------------------------------------------------------
(* app/api/auth/google/callback/route.ts *)

BaseCallbackInput ==
    [code |-> Some("code"), state |-> Some("s1"), cookieState |-> Some("s1"),
     tokenOk |-> TRUE, userInfoOk |-> TRUE, body |-> "",
     sub |-> Some("g1"), email |-> Some("a@x.com"),
     emailVerified |-> Some(TRUE), name |-> Null]

\* email_verified is true, false or absent: false on the callbacks of subject
\* g2 for a@x.com, absent on the one that carries a name.
ValidCallbackInputs ==
    {[BaseCallbackInput EXCEPT !.sub = Some(g), !.email = Some(e),
                               !.emailVerified =
                                  IF g = "g2" /\ e = "a@x.com"
                                  THEN Some(FALSE) ELSE Some(TRUE)] :
        g \in Subs, e \in WellFormedEmails}
    \cup {[BaseCallbackInput EXCEPT !.name = Some("Alice"), !.emailVerified = Null]}

InvalidCallbackInputs ==
    {[BaseCallbackInput EXCEPT !.code = Null],
     [BaseCallbackInput EXCEPT !.state = Null],
     [BaseCallbackInput EXCEPT !.cookieState = Null],
     [BaseCallbackInput EXCEPT !.state = Some("s2")],
     [BaseCallbackInput EXCEPT !.sub = Null],
     [BaseCallbackInput EXCEPT !.email = Null]}
    \cup {[BaseCallbackInput EXCEPT !.tokenOk = FALSE, !.body = b] :
             b \in {"invalid_grant", "invalid_client"}}
    \cup {[BaseCallbackInput EXCEPT !.userInfoOk = FALSE, !.body = b] :
             b \in {"invalid_token"}}

CallbackInputs ==
    ValidCallbackInputs \cup (IF clients = "any" THEN InvalidCallbackInputs ELSE {})

BadRequest(branch, error, detail) ==
    [NoResult EXCEPT !.outcome = "response", !.status = 400, !.message = error,
                     !.detail = detail, !.branch = branch]

\* (mutant) the checks with a test of the email_verified claim
callbackCheckEmailVerified(in) ==
    IF in.code = Null THEN BadRequest("L33", "Missing code", "")
    ELSE IF in.state = Null \/ in.cookieState = Null \/ in.state # in.cookieState
    THEN BadRequest("L41", "Invalid state", "")
    ELSE IF ~in.tokenOk THEN BadRequest("L59", "Token exchange failed", in.body)
    ELSE IF ~in.userInfoOk THEN BadRequest("L77", "Userinfo failed", in.body)
    ELSE IF in.sub = Null THEN BadRequest("L86", "Missing sub", "")
    ELSE IF in.email = Null THEN BadRequest("L92", "Missing email", "")
    ELSE IF in.emailVerified # Some(TRUE) THEN BadRequest("L92", "Unverified email", "")
    ELSE NoResult

\* (mutant) the checks without the test of the userinfo response
callbackCheckNoUserInfo(in) ==
    IF in.code = Null THEN BadRequest("L33", "Missing code", "")
    ELSE IF in.state = Null \/ in.cookieState = Null \/ in.state # in.cookieState
    THEN BadRequest("L41", "Invalid state", "")
    ELSE IF ~in.tokenOk THEN BadRequest("L59", "Token exchange failed", in.body)
    ELSE IF in.sub = Null THEN BadRequest("L86", "Google userinfo missing sub", "")
    ELSE IF in.email = Null THEN BadRequest("L92", "Google account has no email", "")
    ELSE NoResult

\* (mutant) the checks without the comparison of state and oauth_state
callbackCheckNoState(in) ==
    IF in.code = Null THEN BadRequest("L33", "Missing code", "")
    ELSE IF ~in.tokenOk THEN BadRequest("L59", "Token exchange failed", in.body)
    ELSE IF ~in.userInfoOk THEN BadRequest("L77", "Failed to fetch userinfo", in.body)
    ELSE IF in.sub = Null THEN BadRequest("L86", "Google userinfo missing sub", "")
    ELSE IF in.email = Null THEN BadRequest("L92", "Google account has no email", "")
    ELSE NoResult

\* line 28-96: the checks before the transaction.  in holds the request
\* (code, state, oauth_state cookie) and what the provider answers.
callbackCheck(in) ==
    IF in.code = Null THEN BadRequest("L33", "Missing code", "")
    ELSE IF in.state = Null \/ in.cookieState = Null \/ in.state # in.cookieState
    THEN BadRequest("L41", "Invalid state", "")
    ELSE IF ~in.tokenOk THEN BadRequest("L59", "Token exchange failed", in.body)
    ELSE IF ~in.userInfoOk THEN BadRequest("L77", "Failed to fetch userinfo", in.body)
    ELSE IF in.sub = Null THEN BadRequest("L86", "Google userinfo missing sub", "")
    ELSE IF in.email = Null THEN BadRequest("L92", "Google account has no email", "")
    ELSE NoResult

\* email.split("@")[0]
LocalPart(email) == CASE email = "a@x.com" -> "a"
                      [] email = "b@x.com" -> "b"
                      [] OTHER -> email

\* line 169-190: the redirect that carries the session cookie
Redirect(branch, token, expiresAt) ==
    [NoResult EXCEPT !.outcome = "response", !.status = 307, !.branch = branch,
                     !.sessionToken = Some(token),
                     !.cookie = SetCookie(Some(token), Null, Some(expiresAt))]

\* line 118-124: a link exists, the session goes to its user.
callbackTxLinked(db, existingOAuth, tokenHash, expiresAt, t, failAt) ==
    LET r1 == sessionCreate(db, [userId |-> existingOAuth.userId,
                                 tokenHash |-> tokenHash,
                                 expiresAt |-> expiresAt], t, failAt = "session")
    IN IF ~r1.ok THEN r1 ELSE Ok(r1.db, userById(db, existingOAuth.userId))

\* line 130-166: no link; dbUser is what the lookup by email returned.
callbackTxWrite(db, in, dbUser, tokenHash, expiresAt, t, failAt) ==
    LET email == in.email[1]
        displayName == IF in.name # Null THEN in.name[1] ELSE LocalPart(email)
        r1 == IF dbUser # NoRow THEN Ok(db, dbUser)
              ELSE userCreate(db, [email |-> email,
                                   username |-> IF in.name # Null THEN in.name[1]
                                                ELSE displayName,
                                   passwordHash |-> <<"OAUTH">>], failAt = "user")
    IN IF ~r1.ok THEN r1 ELSE
    LET r2 == IF dbUser # NoRow THEN Ok(r1.db, NoRow)
              ELSE familyCreate(r1.db, [name |-> r1.row.username \o "'s Family",
                                        createdBy |-> r1.row.id], failAt = "family")
    IN IF ~r2.ok THEN r2 ELSE
    LET r3 == IF dbUser # NoRow THEN Ok(r2.db, NoRow)
              ELSE familyMemberCreate(r2.db, [userId |-> r1.row.id,
                                              familyId |-> r2.row.id,
                                              memberRole |-> "OWNER"],
                                      failAt = "member")
    IN IF ~r3.ok THEN r3 ELSE
    LET r4 == oAuthAccountCreate(r3.db, [userId |-> r1.row.id, provider |-> "GOOGLE",
                                         providerAccountId |-> in.sub[1],
                                         email |-> email], failAt = "oauth")
    IN IF ~r4.ok THEN r4 ELSE
    LET r5 == sessionCreate(r4.db, [userId |-> r1.row.id, tokenHash |-> tokenHash,
                                    expiresAt |-> expiresAt], t, failAt = "session")
    IN IF ~r5.ok THEN r5 ELSE Ok(r5.db, r1.row)

CallbackFailPoints == {"none", "user", "family", "member", "oauth", "session"}

\* line 27-124: the checks, then the first statement of the transaction; when
\* the link exists the transaction ends here.
CallbackBegin(p) ==
    /\ Begin(p)
    /\ \E in \in CallbackInputs :
          LET c == callbackCheck(in)
          IN IF c # NoResult
             THEN /\ Finish(p, "callback", in, c)
                  /\ UNCHANGED <<users, families, members, sessions, oauthAccounts>>
             ELSE LET existingOAuth == findOAuthAccount(DB, "GOOGLE", in.sub[1])
                  IN IF existingOAuth = NoRow \/ userById(DB, existingOAuth.userId) = NoRow
                     THEN /\ InFlight(p, "callback_find_user", "callback", in, NoRow)
                          /\ UNCHANGED <<users, families, members, sessions, oauthAccounts>>
                     ELSE \E failAt \in {"none", "session"} :
                             \E sessionToken \in sessionTokenDraws({s.tokenHash : s \in sessions}, failAt) :
                            LET expiresAt == getSessionExpiryDate(now)
                                r == transaction(DB, callbackTxLinked(DB, existingOAuth,
                                         hashSessionToken(sessionToken), expiresAt,
                                         now, failAt))
                            IN /\ SetDB(r.db)
                               /\ Finish(p, "callback", in,
                                         IF r.ok THEN Redirect("L123", sessionToken, expiresAt)
                                         ELSE Thrown(r.stmt, r.err))
    /\ UNCHANGED <<now, transactions>>

\* line 127: the lookup by email, inside the transaction
CallbackFindUser(p) ==
    /\ req[p].pc = "callback_find_user"
    /\ InFlight(p, "callback_write", "callback", req[p].input,
                findUserByEmail(DB, req[p].input.email[1]))
    /\ UNCHANGED <<users, families, members, sessions, oauthAccounts, now, nreq, clients, transactions>>

\* line 130-190: the writes of the transaction, its commit, the redirect
CallbackWrite(p) ==
    /\ req[p].pc = "callback_write"
    /\ \E failAt \in CallbackFailPoints :
          \E sessionToken \in sessionTokenDraws({s.tokenHash : s \in sessions}, failAt) :
          LET in == req[p].input
              expiresAt == getSessionExpiryDate(now)
              r == transaction(DB, callbackTxWrite(DB, in, req[p].local,
                                   hashSessionToken(sessionToken), expiresAt,
                                   now, failAt))
          IN /\ SetDB(r.db)
             /\ Finish(p, "callback", in,
                       IF r.ok THEN Redirect("L166", sessionToken, expiresAt)
                       ELSE Thrown(r.stmt, r.err))
    /\ UNCHANGED <<now, nreq, clients, transactions>>

----------------------------------------------------------------------------
(* The environment *)

\* User.isActive is cleared outside these handlers (an operator disabling an
\* account in the store); login reads it.
DisableUser ==
    /\ nreq < Budget
    /\ \E u \in users :
          /\ u.isActive
          /\ users' = (users \ {u}) \cup {[u EXCEPT !.isActive = FALSE]}
    /\ UNCHANGED <<families, members, sessions, oauthAccounts, now, req, nreq, clients, transactions>>

----------------------------------------------------------------------------
(* The clock *)

\* Time passes between requests, a session lifetime at a time.
Tick ==
    /\ \A p \in Procs : Free(p)
    /\ nreq < Budget
    /\ now + SESSION_TIL_DAYS <= MaxTime
    /\ now' = now + SESSION_TIL_DAYS
    /\ UNCHANGED <<users, families, members, sessions, oauthAccounts, req, nreq, clients, transactions>>

----------------------------------------------------------------------------

Empty ==
    /\ users = {}
    /\ families = {}
    /\ members = {}
    /\ sessions = {}
    /\ oauthAccounts = {}
    /\ now = 0
    /\ req = [p \in Procs |-> Idle]
    /\ nreq = 0
    /\ transactions = {}

Next ==
    \/ \E p \in Procs : RegisterBegin(p)
    \/ \E p \in Procs : RegisterTx(p)
    \/ \E p \in Procs : LoginBegin(p)
    \/ \E p \in Procs : LoginTx(p)
    \/ \E p \in Procs : Me(p)
    \/ \E p \in Procs : Logout(p)
    \/ \E p \in Procs : CallbackBegin(p)
    \/ \E p \in Procs : CallbackFindUser(p)
    \/ \E p \in Procs : CallbackWrite(p)
    \/ DisableUser
    \/ Tick

Init == Empty /\ clients = "any"

InitDeep == Empty /\ clients = "wellFormed"

Spec == Init /\ [][Next]_vars

SpecDeep == InitDeep /\ [][Next]_vars

\* The tables after register(BaseRegisterInput) returned on an empty database
\* at time 0: one User, its Family, its OWNER FamilyMember, its first Session.
AfterRegister ==
    registerTx(EmptyDB, BaseRegisterInput, hashPassword(BaseRegisterInput.password),
               hashSessionToken(1), getSessionExpiryDate(0), 0, "none").db

\* The system once that registration is over: the requests that follow it
\* (MaxRequests of them, any input) find one user and one session stored.
InitReturning ==
    /\ users = AfterRegister.users
    /\ families = AfterRegister.families
    /\ members = AfterRegister.members
    /\ sessions = AfterRegister.sessions
    /\ oauthAccounts = AfterRegister.oauthAccounts
    /\ now = 0
    /\ req = [p \in Procs |-> Idle]
    /\ nreq = 0
    /\ clients = "any"
    /\ transactions = {}

SpecReturning == InitReturning /\ [][Next]_vars

----------------------------------------------------------------------------
(* src/server/services/transactions.service.ts *)

\* A Transaction row: the columns the handlers select on, and the amount.
\* prisma.transaction.create
createTransactionForUser(rows, userId, input) ==
    LET row == [id |-> NextId(rows), createdByUserId |-> userId,
                amountCents |-> input.amountCents, deletedAt |-> Null]
    IN [rows |-> rows \cup {row}, row |-> row, ok |-> TRUE]

\* findMany where deletedAt null and createdByUserId (no filter in the query)
listTransactionsForUser(rows, userId) ==
    {r \in rows : r.deletedAt = Null /\ r.createdByUserId = userId}

\* findFirst where deletedAt null, createdByUserId, id
getTransactionForUserById(rows, userId, transactionId) ==
    LET found == {r \in rows : /\ r.deletedAt = Null
                               /\ r.createdByUserId = userId
                               /\ r.id = transactionId}
    IN IF found = {} THEN NoRow ELSE CHOOSE r \in found : TRUE

\* updateTransactionForUserById, line 73-81: findFirst where id and
\* createdByUserId, select id
updateTransactionFind(rows, userId, transactionId) ==
    LET found == {r \in rows : /\ r.id = transactionId
                               /\ r.createdByUserId = userId}
    IN IF found = {} THEN NoRow ELSE [id |-> transactionId]

\* prisma.transaction.update({ where: { id }, data }): the row of that id,
\* whoever created it; the call rejects (P2025) when there is none.
transactionUpdate(rows, transactionId, data) ==
    LET found == {r \in rows : r.id = transactionId}
    IN IF found = {} THEN [rows |-> rows, row |-> NoRow, ok |-> FALSE]
       ELSE LET old == CHOOSE r \in found : TRUE
                new == [f \in DOMAIN old |->
                           IF f \in DOMAIN data THEN data[f] ELSE old[f]]
            IN [rows |-> (rows \ {old}) \cup {new}, row |-> new, ok |-> TRUE]

\* updateTransactionForUserById, line 83-86
updateTransactionWrite(rows, transactionId, data) ==
    transactionUpdate(rows, transactionId, [amountCents |-> data.amountCents])

\* Line 93 starts the findFirst without awaiting it: `existing` is the
\* pending query, an object, so the test of line 102 never returns null and
\* the update of line 104 runs for every id, selected by id alone.
softDeleteTransactionForUserById(rows, userId, transactionId, t) ==
    transactionUpdate(rows, transactionId, [deletedAt |-> Some(t)])

----------------------------------------------------------------------------
(* app/api/transactions/route.ts, app/api/transactions/[id]/route.ts *)

\* The validators of these routes are not among the sources: an id is taken
\* to pass TransactionIdSchema when it is positive, and a body says whether
\* it passes its schema.
TransactionIdParams == 0..MaxTransactions

TransactionIdSchemaOk(id) == id > 0

CreateBodies == {[parses |-> TRUE, amountCents |-> 100],
                 [parses |-> FALSE, amountCents |-> 0]}

UpdateBodies == {[parses |-> TRUE, amountCents |-> 250],
                 [parses |-> FALSE, amountCents |-> 0]}

\* NextResponse.json({...}, { status }); rows are the transactions in it
Response(branch, status, message, rows) ==
    [NoResult EXCEPT !.outcome = "response", !.status = status,
                     !.message = message, !.branch = branch, !.rows = rows]

\* POST /api/transactions
transactionsPOST(db, rows, cookie, body, t) ==
    LET user == getCurrentUserFromRequest(db, cookie, t)
    IN IF user = NoRow
       THEN [rows |-> rows, response |-> Response("L21", 401, "Unauthorized", {})]
       ELSE IF ~body.parses
       THEN [rows |-> rows, response |-> Response("L36", 400, "Invalid Request", {})]
       ELSE LET r == createTransactionForUser(rows, user.id, body)
            IN [rows |-> r.rows, response |-> Response("L42", 201, "", {r.row})]

TransactionsPOST(p) ==
    /\ Begin(p)
    /\ \E cookie \in Cookies, body \in CreateBodies :
          LET r == transactionsPOST(DB, transactions, cookie, body, now)
          IN /\ Cardinality(r.rows) <= MaxTransactions
             /\ transactions' = r.rows
             /\ Finish(p, "transactions_post", [cookie |-> cookie, body |-> body],
                       r.response)
    /\ UNCHANGED <<users, families, members, sessions, oauthAccounts, now>>

\* GET /api/transactions
transactionsGET(db, rows, cookie, t) ==
    LET user == getCurrentUserFromRequest(db, cookie, t)
    IN IF user = NoRow
       THEN Response("L66", 401, "Unathorized", {})
       ELSE Response("L82", 200, "", listTransactionsForUser(rows, user.id))

TransactionsGET(p) ==
    /\ Begin(p)
    /\ \E cookie \in Cookies :
          Finish(p, "transactions_get", [cookie |-> cookie],
                 transactionsGET(DB, transactions, cookie, now))
    /\ UNCHANGED <<users, families, members, sessions, oauthAccounts, now,
                   transactions>>

\* GET /api/transactions/:id
transactionGET(db, rows, cookie, id, t) ==
    LET user == getCurrentUserFromRequest(db, cookie, t)
    IN IF user = NoRow THEN Response("L26", 404, "Unauthorized", {})
       ELSE IF ~TransactionIdSchemaOk(id)
       THEN Response("L32", 400, "Invalid transaction id", {})
       ELSE LET found == getTransactionForUserById(rows, user.id, id)
            IN IF found = NoRow
               THEN Response("L37", 404, "Transaction not found", {})
               ELSE Response("L39", 200, "", {found})

TransactionGET(p) ==
    /\ Begin(p)
    /\ \E cookie \in Cookies, id \in TransactionIdParams :
          Finish(p, "transaction_get", [cookie |-> cookie, id |-> id],
                 transactionGET(DB, transactions, cookie, id, now))
    /\ UNCHANGED <<users, families, members, sessions, oauthAccounts, now,
                   transactions>>

\* PATCH /api/transactions/:id, line 61-83 and the findFirst of the service:
\* NoResult when the request goes on to the update
transactionPATCHCheck(db, cookie, id, body, t) ==
    LET user == getCurrentUserFromRequest(db, cookie, t)
    IN IF user = NoRow THEN Response("L62", 401, "Unauthorized", {})
       ELSE IF ~TransactionIdSchemaOk(id)
       THEN Response("L68", 400, "Invalid transaction id", {})
       ELSE IF ~body.parses THEN Response("L81", 400, "Invalid request body", {})
       ELSE NoResult

TransactionPATCHBegin(p) ==
    /\ Begin(p)
    /\ \E cookie \in Cookies, id \in TransactionIdParams, body \in UpdateBodies :
          LET in == [cookie |-> cookie, id |-> id, body |-> body]
              c == transactionPATCHCheck(DB, cookie, id, body, now)
          IN IF c # NoResult
             THEN Finish(p, "transaction_patch", in, c)
             ELSE LET user == getCurrentUserFromRequest(DB, cookie, now)
                      existing == updateTransactionFind(transactions, user.id, id)
                  IN IF existing = NoRow
                     THEN Finish(p, "transaction_patch", in,
                                 Response("L91", 404, "No transaction found", {}))
                     ELSE InFlight(p, "transaction_patch_write",
                                   "transaction_patch", in, existing)
    /\ UNCHANGED <<users, families, members, sessions, oauthAccounts, now,
                   transactions>>

\* the update of the service (line 83-86) and the response
TransactionPATCHWrite(p) ==
    /\ req[p].pc = "transaction_patch_write"
    /\ LET in == req[p].input
           r == updateTransactionWrite(transactions, in.id, in.body)
       IN /\ transactions' = r.rows
          /\ Finish(p, "transaction_patch", in,
                    IF r.ok THEN Response("L93", 200, "", {r.row})
                    ELSE Response("L103", 500, "Internal server error", {}))
    /\ UNCHANGED <<users, families, members, sessions, oauthAccounts, now, nreq,
                   clients>>

\* DELETE /api/transactions/:id
transactionDELETE(db, rows, cookie, id, t) ==
    LET user == getCurrentUserFromRequest(db, cookie, t)
    IN IF user = NoRow
       THEN [rows |-> rows, response |-> Response("L116", 400, "Unauthorized", {})]
       ELSE IF ~TransactionIdSchemaOk(id)
       THEN [rows |-> rows,
             response |-> Response("L123", 400, "Invalid transaction id", {})]
       ELSE LET r == softDeleteTransactionForUserById(rows, user.id, id, t)
            IN IF ~r.ok
               THEN [rows |-> rows,
                     response |-> Response("L147", 500, "Internal server error", {})]
               ELSE [rows |-> r.rows, response |-> Response("L134", 200, "", {r.row})]

TransactionDELETE(p) ==
    /\ Begin(p)
    /\ \E cookie \in Cookies, id \in TransactionIdParams :
          LET r == transactionDELETE(DB, transactions, cookie, id, now)
          IN /\ transactions' = r.rows
             /\ Finish(p, "transaction_delete", [cookie |-> cookie, id |-> id],
                       r.response)
    /\ UNCHANGED <<users, families, members, sessions, oauthAccounts, now>>

NextLedger ==
    \/ \E p \in Procs : TransactionsPOST(p)
    \/ \E p \in Procs : TransactionsGET(p)
    \/ \E p \in Procs : TransactionGET(p)
    \/ \E p \in Procs : TransactionPATCHBegin(p)
    \/ \E p \in Procs : TransactionPATCHWrite(p)
    \/ \E p \in Procs : TransactionDELETE(p)

\* The tables after a second registration, of b@x.com, at time 0.
AfterTwoRegisters ==
    registerTx(AfterRegister, [BaseRegisterInput EXCEPT !.email = "b@x.com"],
               hashPassword(BaseRegisterInput.password),
               hashSessionToken(2), getSessionExpiryDate(0), 0, "none").db

\* The ledger of two registered users, each holding a session: the requests
\* to the transaction routes (MaxDeepRequests of them) carry no cookie, the
\* cookie of either user, or a token no session has.
InitLedger ==
    /\ users = AfterTwoRegisters.users
    /\ families = AfterTwoRegisters.families
    /\ members = AfterTwoRegisters.members
    /\ sessions = AfterTwoRegisters.sessions
    /\ oauthAccounts = AfterTwoRegisters.oauthAccounts
    /\ now = 0
    /\ req = [p \in Procs |-> Idle]
    /\ nreq = 0
    /\ clients = "ledger"
    /\ transactions = {}

SpecLedger == InitLedger /\ [][NextLedger]_vars

----------------------------------------------------------------------------
(* Properties *)

Done(p) == req[p].pc = "done"

\* The slot in which the request of this step arrives.
Began(p) ==
    /\ nreq' = nreq + 1
    /\ p = (IF req["r1"].pc \in {"idle", "done"} THEN "r1" ELSE "r2")

Registered(email) == \E u \in users : u.email = email

\* The store failed the transaction of a request: a statement failed for a
\* reason of the store's, or the drawn token collided with a stored one.
StoreFault(res) ==
    \/ res.err = "DbError"
    \/ res.err = "P2002" /\ res.branch = "session.create"

\* C1: a register() with valid input and an email not yet registered, whose
\* transaction the store does not fail, returns; and a register() that returns
\* has added exactly one User with that email, one Family created by that
\* user, one FamilyMember linking them with role OWNER, and one Session of
\* that user with revokedAt null and expiresAt in the future, whose tokenHash
\* is the hash of the raw token returned; it has changed no other row.
C1_RegisterProvisions ==
    [][\A p \in Procs :
         (req[p].pc = "register_tx" /\ req'[p].pc = "done") =>
            LET in == req[p].input
                res == req'[p].result
            IN /\ (~Registered(in.email) /\ ~StoreFault(res)) => res.outcome = "ok"
               /\ res.outcome = "ok" =>
                    /\ users \subseteq users' /\ Cardinality(users' \ users) = 1
                    /\ families \subseteq families'
                    /\ Cardinality(families' \ families) = 1
                    /\ members \subseteq members'
                    /\ Cardinality(members' \ members) = 1
                    /\ sessions \subseteq sessions'
                    /\ Cardinality(sessions' \ sessions) = 1
                    /\ oauthAccounts' = oauthAccounts
                    /\ \E u \in users' \ users, f \in families' \ families,
                          m \in members' \ members, s \in sessions' \ sessions :
                          /\ u.email = in.email /\ u.username = in.username
                          /\ res.user = PublicUser(u)
                          /\ f.createdBy = u.id
                          /\ m.userId = u.id /\ m.familyId = f.id
                          /\ m.memberRole = "OWNER"
                          /\ s.userId = u.id /\ s.revokedAt = Null
                          /\ s.expiresAt > now'
                          /\ hashSessionToken(res.sessionToken[1]) = s.tokenHash
      ]_vars

C1_Witness ==
    \E p \in Procs :
        /\ Done(p) /\ req[p].kind = "register" /\ req[p].result.outcome = "ok"
        /\ \E s \in sessions :
              /\ s.tokenHash = hashSessionToken(req[p].result.sessionToken[1])
              /\ s.userId = req[p].result.user.id
              /\ s.revokedAt = Null /\ s.expiresAt > now

\* C2: registration is all-or-nothing.  In every state every User has a
\* Family it created, an OWNER FamilyMember row linking it to that family
\* and a Session; and no Family, FamilyMember or Session row exists without
\* its User: a transaction that failed at any of its statements left nothing.
C2_RegistrationAtomic ==
    /\ \A u \in users :
          /\ \E f \in families :
                /\ f.createdBy = u.id
                /\ \E m \in members : /\ m.userId = u.id /\ m.familyId = f.id
                                      /\ m.memberRole = "OWNER"
          /\ \E s \in sessions : s.userId = u.id
    /\ \A f \in families : \E u \in users : u.id = f.createdBy
    /\ \A m \in members : /\ \E u \in users : u.id = m.userId
                          /\ \E f \in families : f.id = m.familyId
    /\ \A s \in sessions : \E u \in users : u.id = s.userId
    /\ Cardinality(families) = Cardinality(users)
    /\ Cardinality(members) = Cardinality(users)

C2_Witness ==
    \E p \in Procs :
        /\ Done(p) /\ req[p].kind = "register"
        /\ req[p].result.err = "DbError"
        /\ req[p].result.branch = "session.create"
        /\ ~Registered(req[p].input.email)

\* C3: a register() with valid input whose email is already registered fails
\* with HttpError 409 (the route answers 409) at the lookup and leaves every
\* table unchanged.
C3_DuplicateEmailConflict ==
    [][\A p \in Procs :
         (/\ Began(p) /\ req'[p].kind = "register"
          /\ RegisterSchemaOk(req'[p].input)
          /\ Registered(req'[p].input.email)) =>
            /\ req'[p].pc = "done"
            /\ req'[p].result.err = "HttpError"
            /\ req'[p].result.status = 409
            /\ registerPOST(req'[p].result).status = 409
            /\ registerPOST(req'[p].result).cookie = Null
            /\ DB' = DB
      ]_vars

C3_Witness ==
    \E p \in Procs :
        /\ Done(p) /\ req[p].kind = "register"
        /\ req[p].result.status = 409
        /\ Cardinality({u \in users : u.email = req[p].input.email}) = 1

\* C4: of two concurrent register() calls with the same email, not registered
\* when they arrive, neither failed by the store: exactly one returns, the
\* other fails with HttpError 409 (the route answers 409), and exactly one
\* User row has that email.
C4_ConcurrentRegisterOneConflict ==
    \A p, q \in Procs :
        (/\ p # q /\ Done(p) /\ Done(q)
         /\ req[p].kind = "register" /\ req[q].kind = "register"
         /\ RegisterSchemaOk(req[p].input) /\ RegisterSchemaOk(req[q].input)
         /\ req[p].input.email = req[q].input.email
         /\ ~StoreFault(req[p].result) /\ ~StoreFault(req[q].result)
         /\ req[p].result.branch # "L136" \/ req[q].result.branch # "L136") =>
            /\ \E w \in {p, q} : \E l \in {p, q} \ {w} :
                  /\ req[w].result.outcome = "ok"
                  /\ registerPOST(req[w].result).status = 201
                  /\ req[l].result.err = "HttpError"
                  /\ req[l].result.status = 409
                  /\ registerPOST(req[l].result).status = 409
            /\ Cardinality({u \in users : u.email = req[p].input.email}) = 1

\* C5: no two User rows have the same email.
C5_EmailUnique ==
    \A u1, u2 \in users : u1.email = u2.email => u1 = u2

C5_Witness ==
    \E p, q \in Procs :
        /\ Done(p) /\ Done(q)
        /\ req[p].kind = "register" /\ req[q].kind = "callback"
        /\ req[q].input.email = Some(req[p].input.email)
        /\ \/ /\ req[p].result.outcome = "ok"
              /\ req[q].result.err = "P2002"
              /\ req[q].result.branch = "user.create"
           \/ /\ req[q].result.status = 307
              /\ req[p].result.err = "P2002"
              /\ req[p].result.branch = "user.create"

\* C6: a login() with the correct password for an active user reaches the
\* transaction, and returns unless the store fails it; a login() that returns
\* has added exactly one Session row, of that user, with revokedAt null and
\* a tokenHash (the hash of the raw token returned) that no Session row had
\* before, and has left every Session row that existed unchanged.
C6_LoginAddsIndependentSession ==
    [][\A p \in Procs :
         /\ (/\ Began(p) /\ req'[p].kind = "login"
             /\ LoginSchemaOk(req'[p].input)
             /\ \E u \in users :
                   /\ u.email = req'[p].input.email /\ u.isActive
                   /\ u.passwordHash = hashPassword(req'[p].input.password)) =>
                req'[p].pc = "login_tx"
         /\ (req[p].pc = "login_tx" /\ req'[p].pc = "done") =>
               LET res == req'[p].result
               IN /\ ~StoreFault(res) => res.outcome = "ok"
                  /\ res.outcome = "ok" =>
                       /\ sessions \subseteq sessions'
                       /\ Cardinality(sessions' \ sessions) = 1
                       /\ \A s \in sessions' \ sessions :
                             /\ s.userId = res.user.id
                             /\ s.revokedAt = Null
                             /\ s.tokenHash = hashSessionToken(res.sessionToken[1])
                             /\ \A x \in sessions : x.tokenHash # s.tokenHash
      ]_vars

\* a user holding two active sessions, the second from a login
C6_Witness ==
    \E p \in Procs :
        /\ Done(p) /\ req[p].kind = "login" /\ req[p].result.outcome = "ok"
        /\ \E s1, s2 \in sessions :
              /\ s1 # s2
              /\ s1.userId = req[p].result.user.id
              /\ s2.userId = req[p].result.user.id
              /\ s1.revokedAt = Null /\ s2.revokedAt = Null
              /\ s1.expiresAt > now /\ s2.expiresAt > now
              /\ s2.tokenHash = hashSessionToken(req[p].result.sessionToken[1])

\* The user registered with a password, and this is not that password.
WrongPassword(u, password) ==
    /\ u.passwordHash # <<"OAUTH">>
    /\ u.passwordHash # hashPassword(password)

LoginFailure(res) == [status |-> res.status, message |-> res.message]

C8_LoginFailureUniform ==
    \A in1, in2 \in ValidLoginInputs :
        (/\ ~Registered(in1.email)
         /\ \E u \in users :
               /\ u.email = in2.email /\ u.isActive
               /\ WrongPassword(u, in2.password)) =>
            LoginFailure(loginCheck(DB, in1)) = LoginFailure(loginCheck(DB, in2))

\* C9: a login() for a user whose active flag is false ends at once with a
\* failure and creates no Session row, whatever the password; when the input
\* passes LoginSchema (the password is not empty) the failure is HttpError 403.
C9_DisabledAccountForbidden ==
    [][\A p \in Procs :
         (/\ Began(p) /\ req'[p].kind = "login"
          /\ \E u \in users : u.email = req'[p].input.email /\ ~u.isActive) =>
            /\ req'[p].pc = "done"
            /\ req'[p].result.outcome = "throw"
            /\ sessions' = sessions
            /\ LoginSchemaOk(req'[p].input) =>
                  /\ req'[p].result.err = "HttpError"
                  /\ req'[p].result.status = 403
      ]_vars

\* a disabled user refused with the right password
C9_Witness ==
    \E p \in Procs :
        /\ Done(p) /\ req[p].kind = "login"
        /\ req[p].result.status = 403
        /\ \E u \in users :
              /\ u.email = req[p].input.email /\ ~u.isActive
              /\ u.passwordHash = hashPassword(req[p].input.password)

\* C10: a login() whose update of lastLogin failed still returns: the new
\* Session row is stored and the raw token is returned.
C10_LastLoginBestEffort ==
    \A p \in Procs :
        (/\ Done(p) /\ req[p].kind = "login"
         /\ req[p].result.branch = "user.update") =>
            /\ req[p].result.outcome = "ok"
            /\ req[p].result.sessionToken # Null
            /\ \E s \in sessions :
                  s.tokenHash = hashSessionToken(req[p].result.sessionToken[1])

\* C11: a logout sets revokedAt (to the time of the request) on exactly the
\* Session, not yet revoked, whose tokenHash is the hash of the token in the
\* cookie, and changes no other row of any table; without a cookie, or with
\* a token no Session matches, it changes nothing.  In every case it answers
\* 200 with the session cookie emptied and max-age 0.
C11_LogoutRevokesExactlyOne ==
    [][\A p \in Procs :
         (Began(p) /\ req'[p].kind = "logout") =>
            LET cookie == req'[p].input.cookie
                hit == {s \in sessions :
                           /\ cookie # Null
                           /\ s.tokenHash = hashSessionToken(cookie[1])
                           /\ s.revokedAt = Null}
            IN /\ Cardinality(hit) <= 1
               /\ sessions' = (sessions \ hit)
                                 \cup {[s EXCEPT !.revokedAt = Some(now)] : s \in hit}
               /\ users' = users /\ families' = families /\ members' = members
               /\ oauthAccounts' = oauthAccounts
               /\ req'[p].pc = "done"
               /\ req'[p].result.status = 200
               /\ req'[p].result.cookie =
                     Some([value |-> Null, maxAge |-> Some(0), expires |-> Null])
      ]_vars

\* a logout revoked the session of its cookie while the same user holds
\* another session, still not revoked
C11_Witness ==
    \E p \in Procs :
        /\ Done(p) /\ req[p].kind = "logout" /\ req[p].input.cookie # Null
        /\ \E s1, s2 \in sessions :
              /\ s1.tokenHash = hashSessionToken(req[p].input.cookie[1])
              /\ s1.revokedAt = Some(now)
              /\ s2.userId = s1.userId /\ s2.id # s1.id
              /\ s2.revokedAt = Null

\* The session issued with raw token t has been revoked.
Revoked(t) ==
    \E s \in sessions : s.tokenHash = hashSessionToken(t) /\ s.revokedAt # Null

\* C12: revocation is permanent.  A logout with the token of a stored
\* session leaves that session revoked; a revoked session stays revoked
\* through every step of every handler; and while it is revoked the resolver
\* returns no user for its raw token and /me answers 401, during and after
\* any later login, registration, OAuth callback or logout.
C12_RevocationPermanent ==
    [][/\ \A p \in Procs :
            (/\ Began(p) /\ req'[p].kind = "logout"
             /\ req'[p].input.cookie # Null
             /\ \E s \in sessions :
                    s.tokenHash = hashSessionToken(req'[p].input.cookie[1])) =>
                \E s \in sessions' :
                    /\ s.tokenHash = hashSessionToken(req'[p].input.cookie[1])
                    /\ s.revokedAt # Null
       /\ \A t \in Tokens :
            Revoked(t) =>
               /\ Revoked(t)'
               /\ getCurrentUserFromRequest(DB', Some(t), now') = NoRow
               /\ meGET(DB', Some(t), now').status = 401
       /\ \A p \in Procs :
            (/\ Began(p) /\ req'[p].kind = "me"
             /\ req'[p].input.cookie # Null
             /\ Revoked(req'[p].input.cookie[1])) =>
                /\ req'[p].result.status = 401
                /\ req'[p].result.user = NoRow
      ]_vars

\* /me refused the token of a session that a logout revoked and that has
\* not expired
C12_Witness ==
    \E p \in Procs :
        /\ Done(p) /\ req[p].kind = "me" /\ req[p].input.cookie # Null
        /\ req[p].result.status = 401
        /\ \E s \in sessions :
              /\ s.tokenHash = hashSessionToken(req[p].input.cookie[1])
              /\ s.revokedAt # Null
              /\ s.expiresAt > now

\* The sessions that make a cookie valid now: stored under the hash of its
\* token, not revoked, expiring strictly later than now.
ValidSessions(cookie) ==
    {s \in sessions : /\ cookie # Null
                      /\ s.tokenHash = hashSessionToken(cookie[1])
                      /\ s.revokedAt = Null
                      /\ s.expiresAt > now}

\* C13: for every cookie (absent, a token never issued, a token issued) the
\* resolver returns the User owning the session if a Session with the hash of
\* the token exists, is not revoked and expires strictly later than now, and
\* /me then answers 200 with that user; in every other case (no cookie,
\* unknown token, expiresAt <= now, revoked) it returns null, and /me
\* answers one and the same 401 response.
C13_ResolverValidIff ==
    \A cookie \in Cookies :
        LET user == getCurrentUserFromRequest(DB, cookie, now)
            me == meGET(DB, cookie, now)
        IN /\ ValidSessions(cookie) # {} =>
                /\ user \in users
                /\ \A s \in ValidSessions(cookie) : s.userId = user.id
                /\ me.status = 200 /\ me.user = PublicUser(user)
           /\ ValidSessions(cookie) = {} =>
                /\ user = NoRow
                /\ me = meGET(DB, Null, now)
                /\ me.status = 401 /\ me.user = NoRow

\* one session expiring exactly now and not revoked, refused; another of the
\* same user, valid, resolved
C13_Witness ==
    \E s1, s2 \in sessions : \E t1, t2 \in Tokens :
        /\ s1.tokenHash = hashSessionToken(t1) /\ s2.tokenHash = hashSessionToken(t2)
        /\ s1.revokedAt = Null /\ s1.expiresAt = now
        /\ getCurrentUserFromRequest(DB, Some(t1), now) = NoRow
        /\ s2.revokedAt = Null /\ s2.expiresAt > now
        /\ getCurrentUserFromRequest(DB, Some(t2), now) # NoRow

\* C14: the raw token is never stored.  In every state the tokenHash of every
\* Session row is the digest of an issued token and is itself no raw token;
\* and the token returned by register and login, and placed in the session
\* cookie by the register route, the login route and the OAuth callback, is
\* the raw token whose digest is stored, never a stored tokenHash.
C14_RawTokenNeverStored ==
    /\ \A s \in sessions :
          /\ s.tokenHash \notin Tokens
          /\ \E t \in Tokens : s.tokenHash = hashSessionToken(t)
    /\ \A p \in Procs :
          (Done(p) /\ req[p].result.sessionToken # Null) =>
             LET res == req[p].result
                 t == res.sessionToken[1]
                 cookie == CASE req[p].kind = "register" -> registerPOST(res).cookie
                             [] req[p].kind = "login" -> loginPOSTCookie(res)
                             [] OTHER -> res.cookie
             IN /\ t \in Tokens
                /\ \A s \in sessions : s.tokenHash # t
                /\ \E s \in sessions : s.tokenHash = hashSessionToken(t)
                /\ cookie # Null
                /\ cookie[1].value = Some(t)

\* a login, a registration or a callback has returned a token while two
\* sessions are stored
C14_Witness ==
    \E p \in Procs :
        /\ Done(p) /\ req[p].result.sessionToken # Null
        /\ req[p].kind \in {"login", "callback"}
        /\ Cardinality(sessions) = 2
        /\ \E s \in sessions :
              s.tokenHash = hashSessionToken(req[p].result.sessionToken[1])

\* C15: no step of register, login, logout, the OAuth callback, /me or the
\* environment deletes a Session row or changes its id, userId, tokenHash,
\* createdAt or expiresAt; a step either leaves a row as it is or sets its
\* revokedAt from null to the current time; a row whose revokedAt is set is
\* never changed again (a repeated logout leaves its timestamp as it was).
C15_SessionLifecycle ==
    [][\A s \in sessions :
         \/ s \in sessions'
         \/ /\ s.revokedAt = Null
            /\ [s EXCEPT !.revokedAt = Some(now)] \in sessions'
            /\ \A x \in sessions' : x.id = s.id => x.revokedAt # Null
            /\ \E p \in Procs : Began(p) /\ req'[p].kind = "logout"
      ]_vars

\* a logout, the last request (the clock has not moved since), with the
\* token of a session revoked at an earlier time: its revokedAt is still
\* that earlier time
C15_Witness ==
    \E p \in Procs :
        /\ nreq = Budget
        /\ Done(p) /\ req[p].kind = "logout" /\ req[p].input.cookie # Null
        /\ \E s \in sessions :
              /\ s.tokenHash = hashSessionToken(req[p].input.cookie[1])
              /\ s.revokedAt # Null
              /\ s.revokedAt[1] < now

\* What the provider can answer to the token exchange and the userinfo call.
ProviderAnswers ==
    [tokenOk : BOOLEAN, userInfoOk : BOOLEAN,
     body : {"", "invalid_grant", "invalid_client", "invalid_token"}]

\* C16: an OAuth callback without a code, without a state parameter, without
\* an oauth_state cookie, or with a state that differs from the cookie, is
\* answered 400 before the token exchange (the answer is the same whatever
\* the provider would have answered), writes no row in any table and sets no
\* session cookie.
C16_CallbackStateRejected ==
    [][\A p \in Procs :
         (/\ Began(p) /\ req'[p].kind = "callback"
          /\ \/ req'[p].input.code = Null
             \/ req'[p].input.state = Null
             \/ req'[p].input.cookieState = Null
             \/ req'[p].input.state # req'[p].input.cookieState) =>
            /\ req'[p].pc = "done"
            /\ req'[p].result.status = 400
            /\ req'[p].result.branch \in {"L33", "L41"}
            /\ \A a \in ProviderAnswers :
                  callbackCheck([req'[p].input EXCEPT !.tokenOk = a.tokenOk,
                                                      !.userInfoOk = a.userInfoOk,
                                                      !.body = a.body])
                     = req'[p].result
            /\ req'[p].result.cookie = Null
            /\ req'[p].result.sessionToken = Null
            /\ DB' = DB
      ]_vars

\* a callback whose state is not the one in the cookie was refused
C16_Witness ==
    \E p \in Procs :
        /\ Done(p) /\ req[p].kind = "callback"
        /\ req[p].input.state # Null /\ req[p].input.cookieState # Null
        /\ req[p].input.state # req[p].input.cookieState
        /\ req[p].input.code # Null
        /\ req[p].result.status = 400
        /\ oauthAccounts = {}

\* C17: an OAuth callback whose token exchange is not successful, whose
\* userinfo call is not successful, or whose identity claims lack the subject
\* id or the email, is answered 400, writes no row in any table and sets no
\* session cookie.
C17_CallbackProviderFailure ==
    [][\A p \in Procs :
         (/\ Began(p) /\ req'[p].kind = "callback"
          /\ \/ ~req'[p].input.tokenOk
             \/ ~req'[p].input.userInfoOk
             \/ req'[p].input.sub = Null
             \/ req'[p].input.email = Null) =>
            /\ req'[p].pc = "done"
            /\ req'[p].result.status = 400
            /\ req'[p].result.cookie = Null
            /\ req'[p].result.sessionToken = Null
            /\ DB' = DB
      ]_vars

\* a callback with code and state in order was refused because the userinfo
\* call failed
C17_Witness ==
    \E p \in Procs :
        /\ Done(p) /\ req[p].kind = "callback"
        /\ req[p].input.code # Null
        /\ req[p].input.state # Null /\ req[p].input.state = req[p].input.cookieState
        /\ req[p].input.tokenOk /\ ~req[p].input.userInfoOk
        /\ req[p].result.status = 400 /\ req[p].result.branch = "L77"
        /\ oauthAccounts = {}

\* C18: the response to a callback whose token exchange or userinfo call
\* failed does not depend on the error body the provider sent: the same
\* request with any other error body gets the same response.
C18_ProviderBodyHidden ==
    \A p \in Procs :
        (/\ Done(p) /\ req[p].kind = "callback"
         /\ req[p].result.branch \in {"L59", "L77"}) =>
            \A a \in ProviderAnswers :
                callbackCheck([req[p].input EXCEPT !.body = a.body]) = req[p].result

\* The callback passed every check before the transaction.
CallbackValid(in) ==
    /\ in.code # Null
    /\ in.state # Null /\ in.cookieState # Null /\ in.state = in.cookieState
    /\ in.tokenOk /\ in.userInfoOk
    /\ in.sub # Null /\ in.email # Null

\* C19: a valid OAuth callback whose (GOOGLE, subject id) is already linked
\* ends in one step; unless the store fails its session.create (and then it
\* writes nothing) it redirects with the raw token as cookie, having added
\* exactly one Session, owned by the user of the link, and no User, Family,
\* FamilyMember or OAuthAccount row, whatever email the claims carry.
C19_LinkedCallbackReusesUser ==
    [][\A p \in Procs :
         (/\ Began(p) /\ req'[p].kind = "callback"
          /\ CallbackValid(req'[p].input)
          /\ \E a \in oauthAccounts :
                /\ a.provider = "GOOGLE"
                /\ a.providerAccountId = req'[p].input.sub[1]) =>
            LET in == req'[p].input
                res == req'[p].result
                link == {a \in oauthAccounts : /\ a.provider = "GOOGLE"
                                               /\ a.providerAccountId = in.sub[1]}
            IN /\ req'[p].pc = "done"
               /\ users' = users /\ families' = families /\ members' = members
               /\ oauthAccounts' = oauthAccounts
               /\ \/ StoreFault(res) /\ sessions' = sessions
                  \/ /\ res.status = 307
                     /\ res.cookie # Null
                     /\ res.cookie[1].value = res.sessionToken
                     /\ sessions \subseteq sessions'
                     /\ Cardinality(sessions' \ sessions) = 1
                     /\ \A s \in sessions' \ sessions :
                           /\ \A a \in link : s.userId = a.userId
                           /\ s.tokenHash = hashSessionToken(res.sessionToken[1])
                           /\ s.revokedAt = Null
                           /\ s.expiresAt > now
      ]_vars

\* a callback for a linked subject id, carrying the email of another user,
\* was given a session of the link's user
C19_Witness ==
    \E p \in Procs :
        /\ Done(p) /\ req[p].kind = "callback" /\ req[p].result.status = 307
        /\ \E a \in oauthAccounts, u1, u2 \in users, s \in sessions :
              /\ a.providerAccountId = req[p].input.sub[1]
              /\ u1.id = a.userId
              /\ u2.email = req[p].input.email[1]
              /\ u1.id # u2.id
              /\ s.tokenHash = hashSessionToken(req[p].result.sessionToken[1])
              /\ s.userId = u1.id

\* C20: a valid OAuth callback for a subject id without a link and an email
\* without a User, whose transaction the store does not fail, redirects; a
\* callback that redirects after finding no user has added exactly one User
\* (with the placeholder password hash), one Family created by that user,
\* one OWNER FamilyMember, one OAuthAccount for (GOOGLE, subject id) and one
\* Session, all of that user; a callback whose transaction fails at any
\* statement throws and leaves every table as it was.
C20_FirstCallbackProvisions ==
    [][\A p \in Procs :
         (req[p].pc = "callback_write" /\ req'[p].pc = "done") =>
            LET in == req[p].input
                res == req'[p].result
                noLink == \A a \in oauthAccounts :
                             ~(a.provider = "GOOGLE" /\ a.providerAccountId = in.sub[1])
            IN /\ (noLink /\ ~Registered(in.email[1]) /\ ~StoreFault(res)) =>
                     res.status = 307
               /\ res.status # 307 => (res.outcome = "throw" /\ DB' = DB)
               /\ (res.status = 307 /\ req[p].local = NoRow) =>
                    /\ users \subseteq users' /\ Cardinality(users' \ users) = 1
                    /\ families \subseteq families'
                    /\ Cardinality(families' \ families) = 1
                    /\ members \subseteq members'
                    /\ Cardinality(members' \ members) = 1
                    /\ oauthAccounts \subseteq oauthAccounts'
                    /\ Cardinality(oauthAccounts' \ oauthAccounts) = 1
                    /\ sessions \subseteq sessions'
                    /\ Cardinality(sessions' \ sessions) = 1
                    /\ \E u \in users' \ users, f \in families' \ families,
                          m \in members' \ members, s \in sessions' \ sessions,
                          a \in oauthAccounts' \ oauthAccounts :
                          /\ u.email = in.email[1]
                          /\ u.passwordHash = <<"OAUTH">>
                          /\ f.createdBy = u.id
                          /\ m.userId = u.id /\ m.familyId = f.id
                          /\ m.memberRole = "OWNER"
                          /\ a.userId = u.id /\ a.provider = "GOOGLE"
                          /\ a.providerAccountId = in.sub[1]
                          /\ s.userId = u.id /\ s.revokedAt = Null
                          /\ s.tokenHash = hashSessionToken(res.sessionToken[1])
      ]_vars

\* two first-time callbacks for one email: the one whose last statement the
\* store failed left no link behind, the other created user and link
C20_Witness ==
    \E p, q \in Procs :
        /\ Done(p) /\ req[p].kind = "callback"
        /\ req[p].result.err = "DbError" /\ req[p].result.branch = "session.create"
        /\ \A a \in oauthAccounts : a.providerAccountId # req[p].input.sub[1]
        /\ Done(q) /\ req[q].kind = "callback" /\ req[q].result.branch = "L166"
        /\ req[q].input.email = req[p].input.email
        /\ \E u \in users, a \in oauthAccounts :
              /\ u.email = req[q].input.email[1] /\ u.passwordHash = <<"OAUTH">>
              /\ a.userId = u.id /\ a.providerAccountId = req[q].input.sub[1]

\* C21: in every state at most one OAuthAccount row exists per (provider,
\* subject id) and it belongs to one stored User; and a callback that lost
\* the race for a subject id has left nothing behind: every User with the
\* placeholder password hash has its link, its Family, its OWNER
\* FamilyMember and a Session, and no Family, FamilyMember or Session is
\* without its User.
C21_ProviderAccountUnique ==
    /\ \A a1, a2 \in oauthAccounts :
          (a1.provider = a2.provider /\ a1.providerAccountId = a2.providerAccountId)
             => a1 = a2
    /\ \A a \in oauthAccounts : Cardinality({u \in users : u.id = a.userId}) = 1
    /\ \A u \in users :
          u.passwordHash = <<"OAUTH">> =>
             /\ \E a \in oauthAccounts : a.userId = u.id
             /\ \E f \in families, m \in members :
                   /\ f.createdBy = u.id
                   /\ m.userId = u.id /\ m.familyId = f.id
             /\ \E s \in sessions : s.userId = u.id
    /\ Cardinality(families) = Cardinality(users)
    /\ Cardinality(members) = Cardinality(users)
    /\ \A s \in sessions : \E u \in users : u.id = s.userId

\* two first-time callbacks for one subject id and two emails ran
\* concurrently: one redirected, the other was refused by the unique index
\* when it stored its link, and no User has the loser's email
C21_Witness ==
    \E p, q \in Procs :
        /\ Done(p) /\ Done(q)
        /\ req[p].kind = "callback" /\ req[q].kind = "callback"
        /\ req[p].input.sub = req[q].input.sub
        /\ req[p].input.email # req[q].input.email
        /\ req[p].result.branch = "L166"
        /\ req[q].result.err = "P2002"
        /\ req[q].result.branch = "oAuthAccount.create"
        /\ ~Registered(req[q].input.email[1])
        /\ Cardinality(oauthAccounts) = 1 /\ Cardinality(users) = 1

\* C22: a login() with input that passes LoginSchema, for an active User
\* whose passwordHash is the placeholder, has failed with HttpError 401
\* (verifyPassword having returned false, without throwing).
C22_PlaceholderLoginUnauthorized ==
    \A p \in Procs :
        (/\ Done(p) /\ req[p].kind = "login"
         /\ LoginSchemaOk(req[p].input)
         /\ \E u \in users : /\ u.email = req[p].input.email
                              /\ u.passwordHash = <<"OAUTH">>
                              /\ u.isActive) =>
            /\ req[p].result.err = "HttpError"
            /\ req[p].result.status = 401

\* C23: a register() whose email is not well-formed, whose username has
\* fewer than 5 or more than 50 characters, or whose password has fewer than
\* 8 or more than 200 characters, fails at the parse with a ZodError, which
\* the route answers with 400 and no cookie; it fails there also when the
\* email is already registered (the parse precedes the lookup), and no row
\* of any table is written.
C23_RegisterValidation ==
    [][\A p \in Procs :
         (/\ Began(p) /\ req'[p].kind = "register"
          /\ \/ req'[p].input.email \notin WellFormedEmails
             \/ Len(req'[p].input.username) < 5
             \/ Len(req'[p].input.username) > 50
             \/ Len(req'[p].input.password) < 8
             \/ Len(req'[p].input.password) > 200) =>
            /\ req'[p].pc = "done"
            /\ req'[p].result.err = "ZodError"
            /\ req'[p].result.branch = "L129"
            /\ registerPOST(req'[p].result).status = 400
            /\ registerPOST(req'[p].result).cookie = Null
            /\ DB' = DB
      ]_vars

\* a register() with a username of 51 characters and the email of a
\* registered user was refused at the parse
C23_Witness ==
    \E p \in Procs :
        /\ Done(p) /\ req[p].kind = "register"
        /\ Len(req[p].input.username) = 51
        /\ Registered(req[p].input.email)
        /\ req[p].result.err = "ZodError"
        /\ registerPOST(req[p].result).status = 400

\* C24: logout and login do not interfere, in whatever order their steps
\* run.  The step in which a login returns keeps every stored Session as it
\* is (a session revoked by a logout that ran before or during the login
\* stays revoked), adds session B with revokedAt null, and B's token resolves
\* to the user at once.  A logout step revokes the session of its token,
\* leaves every other Session and every User as they are and does not
\* disturb a login in flight; and once both have ended, B is not revoked.
C24_LogoutLoginIndependent ==
    [][\A p \in Procs :
         /\ (/\ req[p].pc = "login_tx" /\ req'[p].pc = "done"
             /\ req'[p].result.outcome = "ok") =>
               LET res == req'[p].result
               IN /\ sessions \subseteq sessions'
                  /\ \E b \in sessions' \ sessions :
                        /\ b.tokenHash = hashSessionToken(res.sessionToken[1])
                        /\ b.userId = res.user.id
                        /\ b.revokedAt = Null
                  /\ getCurrentUserFromRequest(DB', res.sessionToken, now').id
                        = res.user.id
         /\ (/\ Began(p) /\ req'[p].kind = "logout"
             /\ req'[p].input.cookie # Null) =>
               LET hashA == hashSessionToken(req'[p].input.cookie[1])
               IN /\ \A s \in sessions :
                        IF s.tokenHash = hashA
                        THEN \E x \in sessions' : /\ x.id = s.id
                                                   /\ x.revokedAt # Null
                        ELSE s \in sessions'
                  /\ Cardinality(sessions') = Cardinality(sessions)
                  /\ users' = users
                  /\ \A q \in Procs \ {p} :
                        req[q].pc = "login_tx" => req'[q] = req[q]
      ]_vars

\* a logout of session A ran while a login of the same user was in flight;
\* both have ended: A is revoked, B is not and resolves to the user
C24_Witness ==
    /\ Done("r1") /\ req["r1"].kind = "login" /\ req["r1"].result.outcome = "ok"
    /\ Done("r2") /\ req["r2"].kind = "logout" /\ req["r2"].input.cookie # Null
    /\ \E a, b \in sessions :
          /\ a.tokenHash = hashSessionToken(req["r2"].input.cookie[1])
          /\ b.tokenHash = hashSessionToken(req["r1"].result.sessionToken[1])
          /\ a.userId = b.userId /\ a.id # b.id
          /\ a.revokedAt # Null /\ b.revokedAt = Null
          /\ getCurrentUserFromRequest(DB, req["r1"].result.sessionToken, now).id
                = a.userId
          /\ getCurrentUserFromRequest(DB, req["r2"].input.cookie, now) = NoRow

C26_CallbackLinksExistingUser ==
    [][\A p \in Procs :
         /\ (/\ Began(p) /\ req'[p].kind = "callback"
             /\ CallbackValid(req'[p].input)
             /\ \A a \in oauthAccounts :
                   ~(a.provider = "GOOGLE"
                     /\ a.providerAccountId = req'[p].input.sub[1])) =>
               /\ req'[p].pc = "callback_find_user"
               /\ DB' = DB
         /\ (/\ req[p].pc = "callback_write" /\ req'[p].pc = "done"
             /\ req[p].local # NoRow) =>
               LET in == req[p].input
                   res == req'[p].result
                   dbUser == req[p].local
                   noLink == \A a \in oauthAccounts :
                                ~(a.provider = "GOOGLE"
                                  /\ a.providerAccountId = in.sub[1])
               IN /\ \E u \in users : u.id = dbUser.id /\ u.email = in.email[1]
                  /\ users' = users /\ families' = families /\ members' = members
                  /\ (noLink /\ ~StoreFault(res)) => res.status = 307
                  /\ res.status # 307 => (res.outcome = "throw" /\ DB' = DB)
                  /\ res.status = 307 =>
                       /\ oauthAccounts \subseteq oauthAccounts'
                       /\ Cardinality(oauthAccounts' \ oauthAccounts) = 1
                       /\ sessions \subseteq sessions'
                       /\ Cardinality(sessions' \ sessions) = 1
                       /\ \E a \in oauthAccounts' \ oauthAccounts,
                             s \in sessions' \ sessions :
                             /\ a.userId = dbUser.id /\ a.provider = "GOOGLE"
                             /\ a.providerAccountId = in.sub[1]
                             /\ s.userId = dbUser.id /\ s.revokedAt = Null
                             /\ s.tokenHash = hashSessionToken(res.sessionToken[1])
      ]_vars

\* a callback whose email is not verified was linked to the user who
\* registered that email with a password
C26_Witness ==
    \E p \in Procs :
        /\ Done(p) /\ req[p].kind = "callback" /\ req[p].result.branch = "L166"
        /\ req[p].input.emailVerified = Some(FALSE)
        /\ Cardinality(users) = 1 /\ Cardinality(families) = 1
        /\ \E u \in users, a \in oauthAccounts, s \in sessions :
              /\ u.email = req[p].input.email[1]
              /\ u.passwordHash # <<"OAUTH">>
              /\ a.userId = u.id /\ a.providerAccountId = req[p].input.sub[1]
              /\ s.userId = u.id
              /\ s.tokenHash = hashSessionToken(req[p].result.sessionToken[1])

\* C27: the login route answers a failure of login() that carries a status
\* (401 unknown email or wrong password, 403 disabled account) with that
\* status and its message, any other failure with 400, and sets the session
\* cookie exactly when login() succeeded.
C27_LoginRouteMapsFailures ==
    \A p \in Procs :
        (Done(p) /\ req[p].kind = "login") =>
            LET res == req[p].result
                response == loginPOST(res)
            IN /\ res.err = "HttpError" =>
                     /\ response.status = res.status
                     /\ response.status \in {401, 403}
                     /\ response.error = res.message
               /\ (res.outcome = "throw" /\ res.err # "HttpError") =>
                     response.status = 400
               /\ response.cookie # Null <=> res.outcome = "ok"

\* C28: a request to a transaction route (create, list, get by id, update,
\* delete) whose cookie resolves to no user is answered 401, with no
\* transaction in the response.
C28_UnauthenticatedLedger401 ==
    \A p \in Procs :
        (/\ Done(p)
         /\ req[p].kind \in {"transactions_post", "transactions_get",
                              "transaction_get", "transaction_patch",
                              "transaction_delete"}
         /\ getCurrentUserFromRequest(DB, req[p].input.cookie, now) = NoRow) =>
            /\ req[p].result.status = 401
            /\ req[p].result.rows = {}

\* C29: a DELETE of an authenticated user with a valid id sets deletedAt on
\* the transaction of that id when that user created it and it is not
\* deleted, and answers 200; otherwise (created by another user, already
\* deleted, or no such id) it answers 404 and changes no transaction.
C29_SoftDeleteOwnOnly ==
    [][\A p \in Procs :
         (Began(p) /\ req'[p].kind = "transaction_delete") =>
            LET in == req'[p].input
                res == req'[p].result
                user == getCurrentUserFromRequest(DB, in.cookie, now)
                target == {r \in transactions : /\ r.id = in.id
                                                /\ r.createdByUserId = user.id
                                                /\ r.deletedAt = Null}
            IN (user # NoRow /\ TransactionIdSchemaOk(in.id)) =>
                  IF target = {}
                  THEN res.status = 404 /\ transactions' = transactions
                  ELSE /\ res.status = 200
                       /\ transactions' =
                            (transactions \ target)
                               \cup {[r EXCEPT !.deletedAt = Some(now)] : r \in target}
      ]_vars

\* C30: a disabled account cannot authenticate: the resolver returns no
\* User whose isActive is false, whatever session token is presented, and
\* no step adds a Session owned by such a User.
C30_DisabledCannotAuthenticate ==
    /\ [](\A t \in Tokens :
            LET user == getCurrentUserFromRequest(DB, Some(t), now)
            IN user # NoRow => user.isActive)
    /\ [][\A s \in sessions' :
            (\A x \in sessions : x.id # s.id) =>
               \A u \in users' : u.id = s.userId => u.isActive]_vars

====
